---- MODULE Spec2Model ----
(***************************************************************************)
(* A model of src/app.py: the four tool functions (calculator,             *)
(* get_current_time, reverse_string, get_weather) and the entrypoint       *)
(* main().                                                                 *)
(*                                                                         *)
(* A Python str is a sequence of one-character strings, so that slicing,   *)
(* stripping, formatting and parsing are computed character by character.  *)
(* A printed line is the tuple of the pieces its f-string concatenates;    *)
(* the leading emoji of the source's messages are left out of the text.    *)
(***************************************************************************)
EXTENDS Integers, Sequences, FiniteSets, TLC

VARIABLES
    pc,        \* position of main(): which statement runs next
    environ,   \* os.environ: APP_NAME and GITHUB_TOKEN, each set or unset
    dotenv,    \* the contents of the .env file load_dotenv() reads
    app_name,  \* main's local app_name
    out,       \* the lines printed so far, in order
    llm,       \* TRUE once ChatOpenAI(...) has been constructed
    agent,     \* TRUE once AgentExecutor(...) has been constructed
    invoked,   \* the queries agent_executor.invoke was called with, in order
    caught,    \* the queries whose invocation raised into main's except clause
    raised,    \* the exception class that left main(), "" when none
    tool,      \* the tool function of the last call, "" before any call
    arg,       \* the argument of the last tool call
    ret,       \* what the last tool call returned (a str), <<>> when it raised
    exc,       \* the exception class that left the last tool call, "" when none
    now,       \* the wall clock datetime.now() reads
    stamp,     \* the clock value the last get_current_time call read
    told,      \* the str the last get_current_time call returned
    seen,      \* the clock value the last get_weather call read
    expr,      \* the arithmetic expression (prefix form) arg was written from
    family,    \* which kind of calculator input arg is
    orig,      \* the first argument of a chain of reverse_string calls
    calls      \* how many tool calls were made

vars == <<pc, environ, dotenv, app_name, out, llm, agent, invoked, caught,
          raised, tool, arg, ret, exc, now, stamp, told, seen, expr, family, orig, calls>>

mainVars == <<pc, environ, dotenv, app_name, out, llm, agent, invoked, caught, raised>>
toolVars == <<tool, arg, ret, exc, now, stamp, told, seen, expr, family, orig, calls>>

(***************************************************************************)
(* Python's exception hierarchy, as far as `except Exception` reads it.    *)
(***************************************************************************)
ExceptionClasses ==
    {"Exception", "SyntaxError", "ZeroDivisionError", "NameError", "TypeError",
     "AttributeError"}
BaseOnlyClasses == {"KeyboardInterrupt", "SystemExit"}

IsExceptionSubclass(cls) == cls \in ExceptionClasses

(***************************************************************************)
(* Strings                                                                 *)
(***************************************************************************)
Digits == <<"0", "1", "2", "3", "4", "5", "6", "7", "8", "9">>
DigitChars == {Digits[i] : i \in 1..10}
DigitValue(c) == (CHOOSE i \in 1..10 : Digits[i] = c) - 1

\* The decimal digits of n >= 0, most significant first (str of an int).
RECURSIVE DecimalDigits(_)
DecimalDigits(n) ==
    IF n < 10 THEN <<Digits[n + 1]>>
    ELSE Append(DecimalDigits(n \div 10), Digits[(n % 10) + 1])

\* str(n) of a Python int.
IntStr(n) == IF n < 0 THEN <<"-">> \o DecimalDigits(-n) ELSE DecimalDigits(n)

\* strftime's zero-padded fields (%m, %d, %H, %M, %S: width 2; %Y: width 4).
RECURSIVE ZeroPad(_, _)
ZeroPad(s, width) == IF Len(s) >= width THEN s ELSE ZeroPad(<<"0">> \o s, width)

\* The characters str.strip() removes at both ends.
Whitespace == {" ", "\t", "\n"}

RECURSIVE LStrip(_)
LStrip(s) ==
    IF s # <<>> /\ Head(s) \in Whitespace THEN LStrip(Tail(s)) ELSE s

RECURSIVE RStrip(_)
RStrip(s) ==
    IF s # <<>> /\ s[Len(s)] \in Whitespace
    THEN RStrip(SubSeq(s, 1, Len(s) - 1)) ELSE s

\* str.strip()
Strip(s) == RStrip(LStrip(s))

\* s.startswith(prefix)
StartsWith(s, prefix) ==
    Len(s) >= Len(prefix) /\ SubSeq(s, 1, Len(prefix)) = prefix

\* Python values passed to a tool: a str, or None.
Str(s) == [type |-> "str", chars |-> s]
None == [type |-> "NoneType", chars |-> <<>>]

(***************************************************************************)
(* calculator: eval(expression), str(result) and the except clause         *)
(*                                                                         *)
(* eval is modelled on the part of Python's expression grammar the inputs  *)
(* below are written in: decimal integer literals, names, the binary       *)
(* operators + - * / //, unary + and -, parentheses, the empty tuple ()    *)
(* and calls with no or one argument. Other operators (power, modulo,      *)
(* comparisons) and other literals (floats, hex, strings) are not part of  *)
(* any input.                                                              *)
(* The text of an exception message is kept as one piece, not character by *)
(* character: CPython words several of them differently across versions.   *)
(***************************************************************************)
Tok(k, n, s) == [k |-> k, n |-> n, s |-> s]

Blank == {" ", "\t"}
NameStart ==
    {"a", "b", "c", "d", "e", "f", "g", "h", "i", "j", "k", "l", "m", "n", "o",
     "p", "q", "r", "s", "t", "u", "v", "w", "x", "y", "z", "_"}
OperatorChars == {"+", "-", "*", "/", "(", ")"}

\* The last index of the run of characters of `set` that starts at s[i].
RECURSIVE RunEnd(_, _, _)
RunEnd(s, i, set) ==
    IF i < Len(s) /\ s[i + 1] \in set THEN RunEnd(s, i + 1, set) ELSE i

\* The value of a decimal literal.
RECURSIVE NumValue(_)
NumValue(text) ==
    IF text = <<>> THEN 0
    ELSE NumValue(SubSeq(text, 1, Len(text) - 1)) * 10 + DigitValue(text[Len(text)])

\* A decimal literal is malformed when a name character follows it ("1a")
\* or when it has a leading zero and is not all zeros ("01").
BadNumber(s, j, text) ==
    \/ j < Len(s) /\ s[j + 1] \in NameStart
    \/ Len(text) > 1 /\ text[1] = "0" /\ \E k \in DOMAIN text : text[k] # "0"

\* The tokens of s from position i on. Lexing stops at a token marked "bad".
RECURSIVE LexFrom(_, _)
LexFrom(s, i) ==
    IF i > Len(s) THEN <<>>
    ELSE LET c == s[i]
         IN IF c \in Blank THEN LexFrom(s, i + 1)
            ELSE IF c \in DigitChars
            THEN LET j == RunEnd(s, i, DigitChars)
                     text == SubSeq(s, i, j)
                 IN IF BadNumber(s, j, text) THEN <<Tok("bad", 0, text)>>
                    ELSE <<Tok("num", NumValue(text), text)>> \o LexFrom(s, j + 1)
            ELSE IF c \in NameStart
            THEN LET j == RunEnd(s, i, NameStart \cup DigitChars)
                 IN <<Tok("name", 0, SubSeq(s, i, j))>> \o LexFrom(s, j + 1)
            ELSE IF c = "/" /\ i < Len(s) /\ s[i + 1] = "/"
            THEN <<Tok("op", 0, <<"/", "/">>)>> \o LexFrom(s, i + 2)
            ELSE IF c \in OperatorChars
            THEN <<Tok("op", 0, <<c>>)>> \o LexFrom(s, i + 1)
            ELSE <<Tok("bad", 0, <<c>>)>>

Lex(s) == LexFrom(s, 1)

\* Syntax trees are written in prefix form: a node, then its operands.
Node(k, n, s) == [k |-> k, n |-> n, s |-> s]

ParseFail == [ok |-> FALSE, ast |-> <<>>, i |-> 0]
Parsed(ast, i) == [ok |-> TRUE, ast |-> ast, i |-> i]

\* The token at position i is one of the operators ops.
IsOp(toks, i, ops) == i <= Len(toks) /\ toks[i].k = "op" /\ toks[i].s \in ops

\* + and - with the multiplicative operators: no precedence between them.
TermOpsWithAdditive == {<<"*">>, <<"/">>, <<"/", "/">>, <<"+">>, <<"-">>}

ArithOps == {<<"+">>, <<"-">>}
TermOps == {<<"*">>, <<"/">>, <<"/", "/">>}
UnaryOps == {<<"+">>, <<"-">>}

RECURSIVE ParseArith(_, _)
RECURSIVE ArithRest(_, _, _)
RECURSIVE ParseTerm(_, _)
RECURSIVE TermRest(_, _, _)
RECURSIVE ParseFactor(_, _)
RECURSIVE ParsePrimary(_, _)
RECURSIVE TrailerRest(_, _, _)
RECURSIVE ParseAtom(_, _)

\* arith_expr: term (('+'|'-') term)*, left associative
ParseArith(toks, i) ==
    LET l == ParseTerm(toks, i)
    IN IF l.ok THEN ArithRest(toks, l.i, l.ast) ELSE ParseFail

ArithRest(toks, i, left) ==
    IF IsOp(toks, i, ArithOps)
    THEN LET r == ParseTerm(toks, i + 1)
         IN IF r.ok
            THEN ArithRest(toks, r.i, <<Node("bin", 0, toks[i].s)>> \o left \o r.ast)
            ELSE ParseFail
    ELSE Parsed(left, i)

\* term: factor (('*'|'/'|'//') factor)*, left associative
ParseTerm(toks, i) ==
    LET l == ParseFactor(toks, i)
    IN IF l.ok THEN TermRest(toks, l.i, l.ast) ELSE ParseFail

TermRest(toks, i, left) ==
    IF IsOp(toks, i, TermOps)
    THEN LET r == ParseFactor(toks, i + 1)
         IN IF r.ok
            THEN TermRest(toks, r.i, <<Node("bin", 0, toks[i].s)>> \o left \o r.ast)
            ELSE ParseFail
    ELSE Parsed(left, i)

\* factor: ('+'|'-') factor | primary
ParseFactor(toks, i) ==
    IF IsOp(toks, i, UnaryOps)
    THEN LET r == ParseFactor(toks, i + 1)
         IN IF r.ok THEN Parsed(<<Node("un", 0, toks[i].s)>> \o r.ast, r.i)
            ELSE ParseFail
    ELSE ParsePrimary(toks, i)

\* primary: atom trailer*
ParsePrimary(toks, i) ==
    LET a == ParseAtom(toks, i)
    IN IF a.ok THEN TrailerRest(toks, a.i, a.ast) ELSE ParseFail

\* trailer: '(' [expr] ')'
TrailerRest(toks, i, f) ==
    IF IsOp(toks, i, {<<"(">>})
    THEN IF IsOp(toks, i + 1, {<<")">>})
         THEN TrailerRest(toks, i + 2, <<Node("call0", 0, <<>>)>> \o f)
         ELSE LET e == ParseArith(toks, i + 1)
              IN IF e.ok /\ IsOp(toks, e.i, {<<")">>})
                 THEN TrailerRest(toks, e.i + 1,
                                  <<Node("call1", 0, <<>>)>> \o f \o e.ast)
                 ELSE ParseFail
    ELSE Parsed(f, i)

\* atom: NUMBER | NAME | '(' ')' | '(' expr ')'
ParseAtom(toks, i) ==
    IF i > Len(toks) THEN ParseFail
    ELSE IF toks[i].k = "num" THEN Parsed(<<Node("num", toks[i].n, toks[i].s)>>, i + 1)
    ELSE IF toks[i].k = "name" THEN Parsed(<<Node("name", 0, toks[i].s)>>, i + 1)
    ELSE IF IsOp(toks, i, {<<"(">>})
    THEN IF IsOp(toks, i + 1, {<<")">>})
         THEN Parsed(<<Node("tuple", 0, <<>>)>>, i + 2)
         ELSE LET e == ParseArith(toks, i + 1)
              IN IF e.ok /\ IsOp(toks, e.i, {<<")">>})
                 THEN Parsed(e.ast, e.i + 1)
                 ELSE ParseFail
    ELSE ParseFail

\* compile(expression, "<string>", "eval"): the whole input is one expression.
Parse(s) ==
    LET toks == Lex(s)
        e == ParseArith(toks, 1)
    IN IF e.ok /\ e.i = Len(toks) + 1 THEN e ELSE ParseFail

\* Python values: an int n, a float n/d (d > 0), the empty tuple, and the
\* object the name exit is bound to.
PyInt(n) == [t |-> "int", n |-> n, d |-> 1]
PyFloat(n, d) == IF d < 0 THEN [t |-> "float", n |-> -n, d |-> -d]
               ELSE [t |-> "float", n |-> n, d |-> d]
EmptyTuple == [t |-> "tuple", n |-> 0, d |-> 1]
Quitter == [t |-> "Quitter", n |-> 0, d |-> 1]

IsNumber(v) == v.t \in {"int", "float"}

Returned(v, i) == [v |-> v, exc |-> "", msg |-> <<>>, i |-> i]
Raised(cls, msg) == [v |-> PyInt(0), exc |-> cls, msg |-> msg, i |-> 0]

EXIT == <<"e", "x", "i", "t">>

\* A name is looked up in calculator's locals, the module's globals and the
\* builtins; of the names the inputs use, only exit is bound.
Lookup(name, i) ==
    IF name = EXIT THEN Returned(Quitter, i)
    ELSE Raised("NameError", <<"name '">> \o name \o <<"' is not defined">>)

UnaryOp(op, a, i) ==
    IF ~IsNumber(a)
    THEN Raised("TypeError", <<"bad operand type for unary ">> \o op)
    ELSE IF op = <<"-">> THEN Returned([a EXCEPT !.n = -a.n], i)
    ELSE Returned(a, i)

\* The result of a / b or a // b for numbers a and b, b not zero.
Quotient(op, a, b) ==
    LET q == PyFloat(a.n * b.d, a.d * b.n)
    IN IF op = <<"/">> THEN q
       ELSE IF a.t = "int" /\ b.t = "int" THEN PyInt(q.n \div q.d)
       ELSE PyFloat(q.n \div q.d, 1)

BinaryOp(op, a, b, i) ==
    IF IsNumber(a) /\ IsNumber(b)
    THEN IF op \in {<<"/">>, <<"/", "/">>}
         THEN IF b.n = 0 THEN Raised("ZeroDivisionError", <<"division by zero">>)
              ELSE Returned(Quotient(op, a, b), i)
         ELSE LET n == IF op = <<"+">> THEN a.n * b.d + b.n * a.d
                       ELSE IF op = <<"-">> THEN a.n * b.d - b.n * a.d
                       ELSE a.n * b.n
              IN IF a.t = "int" /\ b.t = "int" THEN Returned(PyInt(n), i)
                 ELSE Returned(PyFloat(n, a.d * b.d), i)
    ELSE IF op = <<"+">> /\ a.t = "tuple" /\ b.t = "tuple" THEN Returned(EmptyTuple, i)
    ELSE IF op = <<"*">> /\ {a.t, b.t} = {"tuple", "int"} THEN Returned(EmptyTuple, i)
    ELSE Raised("TypeError", <<"unsupported operand type(s) for ">> \o op)

\* Calling exit raises SystemExit; the other values are not callable.
CallValue(f, i) ==
    IF f.t = "Quitter" THEN Raised("SystemExit", <<>>)
    ELSE Raised("TypeError", <<"'", f.t, "' object is not callable">>)

\* The value of the subtree at ast[i]: operands are evaluated left to
\* right, and the first exception raised ends the evaluation.
RECURSIVE EvalAt(_, _)
EvalAt(ast, i) ==
    LET node == ast[i]
    IN IF node.k = "num" THEN Returned(PyInt(node.n), i + 1)
       ELSE IF node.k = "name" THEN Lookup(node.s, i + 1)
       ELSE IF node.k = "tuple" THEN Returned(EmptyTuple, i + 1)
       ELSE IF node.k = "un"
       THEN LET a == EvalAt(ast, i + 1)
            IN IF a.exc # "" THEN a ELSE UnaryOp(node.s, a.v, a.i)
       ELSE IF node.k = "bin"
       THEN LET l == EvalAt(ast, i + 1)
            IN IF l.exc # "" THEN l
               ELSE LET r == EvalAt(ast, l.i)
                    IN IF r.exc # "" THEN r ELSE BinaryOp(node.s, l.v, r.v, r.i)
       ELSE IF node.k = "call0"
       THEN LET f == EvalAt(ast, i + 1)
            IN IF f.exc # "" THEN f ELSE CallValue(f.v, f.i)
       ELSE LET f == EvalAt(ast, i + 1)
            IN IF f.exc # "" THEN f
               ELSE LET a == EvalAt(ast, f.i)
                    IN IF a.exc # "" THEN a ELSE CallValue(f.v, a.i)

\* The value of compiled source, or the SyntaxError of source that did not
\* compile.
EvalParsed(e) ==
    IF ~e.ok THEN Raised("SyntaxError", <<"invalid syntax (<string>, line 1)">>)
    ELSE EvalAt(e.ast, 1)

\* eval(expression): the source is compiled, then evaluated.
PyEval(expression) == EvalParsed(Parse(expression))

\* str(result). The digits of a float that is not a whole number are not
\* computed: its repr is kept as the quotient it stands for.
PyStr(v) ==
    IF v.t = "int" THEN IntStr(v.n)
    ELSE IF v.t = "float"
    THEN IF v.n % v.d = 0 THEN IntStr(v.n \div v.d) \o <<".", "0">>
         ELSE <<"float ">> \o IntStr(v.n) \o <<"/">> \o IntStr(v.d)
    ELSE IF v.t = "tuple" THEN <<"(", ")">>
    ELSE <<"Use exit() or Ctrl-D (i.e. EOF) to exit">>

ERROR_PREFIX ==
    <<"E", "r", "r", "o", "r", " ", "e", "v", "a", "l", "u", "a", "t", "i", "n", "g",
      " ", "e", "x", "p", "r", "e", "s", "s", "i", "o", "n", ":", " ">>

\* `except ZeroDivisionError`: a handler for one class only.
CalculatorCatchesDivisionOnly(cls) == cls = "ZeroDivisionError"

\* `except Exception as e` (line 32): what calculator's handler catches.
CalculatorCatches(cls) == IsExceptionSubclass(cls)

\* Lines 31-33: the str of the value eval returned, or the error string
\* for an exception the handler catches. The result is [ret, exc]: the str
\* returned and "", or <<>> and the class of the exception that escapes.
CalculatorResult(r) ==
    IF r.exc = "" THEN [ret |-> PyStr(r.v), exc |-> ""]
    ELSE IF CalculatorCatches(r.exc)
    THEN [ret |-> ERROR_PREFIX \o r.msg, exc |-> ""]
    ELSE [ret |-> <<>>, exc |-> r.exc]

\* calculator(expression), lines 29-33.
calculator(expression) == CalculatorResult(PyEval(expression))

(***************************************************************************)
(* reverse_string                                                          *)
(***************************************************************************)
\* text[1:] + text[:1]: a rotation instead of a reversal.
rotate_string(text) ==
    IF text = <<>> THEN text ELSE Append(Tail(text), Head(text))

\* text[::-1]: the characters from the last to the first.
reverse_string(text) == [i \in 1..Len(text) |-> text[Len(text) + 1 - i]]

(***************************************************************************)
(* The wall clock, get_current_time and get_weather                        *)
(***************************************************************************)
IsLeap(y) == (y % 4 = 0 /\ y % 100 # 0) \/ y % 400 = 0

DaysInMonth(y, m) ==
    IF m = 2 THEN (IF IsLeap(y) THEN 29 ELSE 28)
    ELSE IF m \in {4, 6, 9, 11} THEN 30 ELSE 31

Clock(y, mo, d, h, mi, s) ==
    [year |-> y, month |-> mo, day |-> d, hour |-> h, minute |-> mi, second |-> s]

\* The clock one second later.
NextSecond(c) ==
    IF c.second < 59 THEN [c EXCEPT !.second = @ + 1]
    ELSE IF c.minute < 59 THEN [c EXCEPT !.second = 0, !.minute = @ + 1]
    ELSE IF c.hour < 23 THEN [c EXCEPT !.second = 0, !.minute = 0, !.hour = @ + 1]
    ELSE IF c.day < DaysInMonth(c.year, c.month)
         THEN Clock(c.year, c.month, c.day + 1, 0, 0, 0)
    ELSE IF c.month < 12 THEN Clock(c.year, c.month + 1, 1, 0, 0, 0)
    ELSE Clock(c.year + 1, 1, 1, 0, 0, 0)

\* The calendar date of a clock value.
DateOf(c) == <<c.year, c.month, c.day>>

\* strftime("%Y-%m-%d")
StrfDate(c) ==
    ZeroPad(DecimalDigits(c.year), 4) \o <<"-">>
    \o ZeroPad(DecimalDigits(c.month), 2) \o <<"-">>
    \o ZeroPad(DecimalDigits(c.day), 2)

\* strftime("%Y-%m-%d %H:%M:%S")
StrfDateTime(c) ==
    StrfDate(c) \o <<" ">>
    \o ZeroPad(DecimalDigits(c.hour), 2) \o <<":">>
    \o ZeroPad(DecimalDigits(c.minute), 2) \o <<":">>
    \o ZeroPad(DecimalDigits(c.second), 2)

\* strftime("%d-%m-%Y %H:%M:%S"): the date fields in another order.
get_current_time_day_first(input, clock) ==
    ZeroPad(DecimalDigits(clock.day), 2) \o <<"-">>
    \o ZeroPad(DecimalDigits(clock.month), 2) \o <<"-">>
    \o ZeroPad(DecimalDigits(clock.year), 4) \o <<" ">>
    \o ZeroPad(DecimalDigits(clock.hour), 2) \o <<":">>
    \o ZeroPad(DecimalDigits(clock.minute), 2) \o <<":">>
    \o ZeroPad(DecimalDigits(clock.second), 2)

\* get_current_time(input): the argument is not read.
get_current_time(input, clock) == StrfDateTime(clock)

SUNNY == <<"S", "u", "n", "n", "y", ",", " ", "7", "2", "°", "F">>
RAINY == <<"R", "a", "i", "n", "y", ",", " ", "5", "5", "°", "F">>
WEATHER_ERROR ==
    <<"E", "r", "r", "o", "r", " ", "g", "e", "t", "t", "i", "n", "g", " ",
      "w", "e", "a", "t", "h", "e", "r", ":", " ">>

\* str(e) of the AttributeError that None.strip raises.
NoStripMessage == <<"'NoneType' object has no attribute 'strip'">>

\* `except Exception as e` (line 75): what get_weather's handler catches.
WeatherCatches(cls) == IsExceptionSubclass(cls)

\* date.strip().startswith(today): text after the date would be accepted.
IsTodayPrefix(date, today) == StartsWith(Strip(date), today)

\* date.strip() != today: the two branches exchanged.
IsTodayNegated(date, today) == Strip(date) # today

\* date.strip() == today (line 72)
IsToday(date, today) == Strip(date) = today

\* get_weather(date), lines 70-76. The result is [ret, exc]: the str
\* returned and "", or <<>> and the class of the exception that escapes.
get_weather(date, clock) ==
    LET today == StrfDate(clock)
    IN IF date.type # "str"
       THEN IF WeatherCatches("AttributeError")
            THEN [ret |-> WEATHER_ERROR \o NoStripMessage, exc |-> ""]
            ELSE [ret |-> <<>>, exc |-> "AttributeError"]
       ELSE IF IsToday(date.chars, today)
            THEN [ret |-> SUNNY, exc |-> ""]
            ELSE [ret |-> RAINY, exc |-> ""]

(***************************************************************************)
(* main()                                                                  *)
(***************************************************************************)
Unset == [set |-> FALSE, val |-> ""]
SetTo(v) == [set |-> TRUE, val |-> v]

DEFAULT_APP_NAME == "LangChain Agent"

\* Getenv without the default: an unset key reads as its empty value.
GetenvIgnoringDefault(env, key, default) == env[key].val

\* os.getenv(key, default): the value when the key is set, else the default.
Getenv(env, key, default) == IF env[key].set THEN env[key].val ELSE default

\* load_dotenv(): every key of the .env file that os.environ does not hold
\* yet is added to it; a key already set (even to "") is left alone.
LoadDotenv(env, file) ==
    [k \in DOMAIN env |-> IF env[k].set THEN env[k] ELSE file[k]]

\* `github_token is None`: an empty token would count as present.
TokenMissingOnlyWhenUnset(env) == ~env["GITHUB_TOKEN"].set

\* `not github_token`: None (unset) and the empty string are both falsy.
TokenMissing(env) == ~env["GITHUB_TOKEN"].set \/ env["GITHUB_TOKEN"].val = ""

StartLine(name) == <<"Starting ", name, "...">>
MissingLines ==
    << <<"Error: GITHUB_TOKEN not found in environment variables.">>,
       <<"To fix this:">>,
       <<"   1. Create a .env file in the project root">>,
       <<"   2. Add your token: GITHUB_TOKEN=your_token_here">>,
       <<"   3. Generate a token at https://github.com/settings/tokens">> >>
LoadedLine == <<"GITHUB_TOKEN loaded successfully.">>
ModelLine == <<"ChatOpenAI model initialized.">>
ToolNames == <<"Calculator", "get_current_time", "reverse_string", "get_weather">>
ToolsLine == <<"Tools registered: ">> \o ToolNames
AgentLine == <<"Agent created successfully.">>
RunningLine == <<"Running example queries:">>
SeparatorLine == <<"--------------------------------------------------">>
QueryLine(q) == <<"Query: ", q>>
ResultLine(r) == <<"Result: ", r>>
ErrorLine(e) == <<"Error: ", e>>
CompleteLine == <<"Agent demo complete!">>

queries ==
    << "What time is it right now?",
       "What is 25 * 4 + 10?",
       "Reverse the string 'Hello World'",
       "What's the weather like today?" >>

AppNames == {"", "MyApp"}
Tokens == {"", "ghp_token"}
EnvValues(vals) == {Unset} \cup {SetTo(v) : v \in vals}
Environments ==
    {[APP_NAME |-> a, GITHUB_TOKEN |-> t] :
        a \in EnvValues(AppNames), t \in EnvValues(Tokens)}

MainIdle ==
    /\ pc = "idle" /\ environ = [APP_NAME |-> Unset, GITHUB_TOKEN |-> Unset]
    /\ dotenv = [APP_NAME |-> Unset, GITHUB_TOKEN |-> Unset]
    /\ app_name = "" /\ out = <<>> /\ llm = FALSE /\ agent = FALSE
    /\ invoked = <<>> /\ caught = {} /\ raised = ""

ToolsIdle ==
    /\ tool = "" /\ arg = <<>> /\ ret = <<>> /\ exc = ""
    /\ now = Clock(2024, 1, 1, 0, 0, 0) /\ stamp = now /\ told = <<>> /\ seen = now
    /\ expr = <<>> /\ family = "" /\ orig = <<>> /\ calls = 0

MainInit ==
    /\ pc = "start"
    /\ environ \in Environments
    /\ dotenv \in Environments
    /\ app_name = "" /\ out = <<>> /\ llm = FALSE /\ agent = FALSE
    /\ invoked = <<>> /\ caught = {} /\ raised = ""

\* Lines 85-87: load_dotenv(), read APP_NAME, print the startup line.
Startup ==
    /\ pc = "start"
    /\ environ' = LoadDotenv(environ, dotenv)
    /\ app_name' = Getenv(environ', "APP_NAME", DEFAULT_APP_NAME)
    /\ out' = Append(out, StartLine(app_name'))
    /\ pc' = "token"
    /\ UNCHANGED <<dotenv, llm, agent, invoked, caught, raised>>
    /\ UNCHANGED toolVars

\* Lines 89-96: the token is missing: print the remediation steps, return.
ReportMissingToken ==
    /\ pc = "token"
    /\ TokenMissing(environ)
    /\ out' = out \o MissingLines
    /\ pc' = "returned"
    /\ UNCHANGED <<environ, dotenv, app_name, llm, agent, invoked, caught, raised>>
    /\ UNCHANGED toolVars

\* Lines 89-98: the token is there.
TokenLoaded ==
    /\ pc = "token"
    /\ ~TokenMissing(environ)
    /\ out' = Append(out, LoadedLine)
    /\ pc' = "llm"
    /\ UNCHANGED <<environ, dotenv, app_name, llm, agent, invoked, caught, raised>>
    /\ UNCHANGED toolVars

\* A statement outside any try block: an exception of any class leaves main().
Propagate(cls) ==
    /\ raised' = cls
    /\ pc' = "raised"

\* Lines 100-107: construct the model client; the constructor returns or raises.
BuildModel ==
    /\ pc = "llm"
    /\ \/ /\ llm' = TRUE
          /\ out' = Append(out, ModelLine)
          /\ pc' = "tools"
          /\ UNCHANGED raised
       \/ /\ \E cls \in {"Exception", "KeyboardInterrupt"} : Propagate(cls)
          /\ UNCHANGED <<llm, out>>
    /\ UNCHANGED <<environ, dotenv, app_name, agent, invoked, caught>>
    /\ UNCHANGED toolVars

\* Lines 109-137: build the four Tool objects and print their names.
RegisterTools ==
    /\ pc = "tools"
    /\ \/ /\ out' = Append(out, ToolsLine)
          /\ pc' = "agent"
          /\ UNCHANGED raised
       \/ /\ \E cls \in {"Exception", "KeyboardInterrupt"} : Propagate(cls)
          /\ UNCHANGED out
    /\ UNCHANGED <<environ, dotenv, app_name, llm, agent, invoked, caught>>
    /\ UNCHANGED toolVars

\* Agent construction inside a try block like the loop's: a failure is
\* printed and the run goes on to the queries.
CreateAgentGuarded ==
    /\ pc = "agent"
    /\ \/ /\ agent' = TRUE
          /\ out' = Append(out, AgentLine)
       \/ /\ out' = Append(out, ErrorLine("Exception"))
          /\ UNCHANGED agent
    /\ pc' = "queries"
    /\ UNCHANGED <<environ, dotenv, app_name, llm, invoked, caught, raised>>
    /\ UNCHANGED toolVars

\* Lines 140-151: prompt, create_tool_calling_agent, AgentExecutor.
CreateAgent ==
    /\ pc = "agent"
    /\ \/ /\ agent' = TRUE
          /\ out' = Append(out, AgentLine)
          /\ pc' = "queries"
          /\ UNCHANGED raised
       \/ /\ \E cls \in {"Exception", "KeyboardInterrupt"} : Propagate(cls)
          /\ UNCHANGED <<agent, out>>
    /\ UNCHANGED <<environ, dotenv, app_name, llm, invoked, caught>>
    /\ UNCHANGED toolVars

\* Lines 154-161: the query list and the header line.
BeginQueries ==
    /\ pc = "queries"
    /\ out' = Append(out, RunningLine)
    /\ pc' = "loop"
    /\ UNCHANGED <<environ, dotenv, app_name, llm, agent, invoked, caught, raised>>
    /\ UNCHANGED toolVars

\* A handler narrowed to one class: a plain Exception would not be caught.
LoopCatchesOnlyNameError(cls) == cls = "NameError"

\* `except Exception as e` (line 168): what the handler of the loop catches.
LoopCatches(cls) == IsExceptionSubclass(cls)

\* Lines 162-169: one iteration of the loop over queries. The invocation
\* returns an output, or raises; the handler prints what it catches.
InvokeQuery ==
    /\ pc = "loop"
    /\ Len(invoked) < Len(queries)
    /\ LET query == queries[Len(invoked) + 1]
           head == out \o <<SeparatorLine, QueryLine(query)>>
       IN /\ invoked' = Append(invoked, query)
          /\ \/ /\ out' = Append(head, ResultLine("output"))
                /\ UNCHANGED <<caught, raised, pc>>
             \/ \E cls \in {"Exception"} \cup BaseOnlyClasses :
                   IF LoopCatches(cls)
                   THEN /\ out' = Append(head, ErrorLine(cls))
                        /\ caught' = caught \cup {query}
                        /\ UNCHANGED <<raised, pc>>
                   ELSE /\ out' = head
                        /\ Propagate(cls)
                        /\ UNCHANGED caught
    /\ UNCHANGED <<environ, dotenv, app_name, llm, agent>>
    /\ UNCHANGED toolVars

\* Lines 171-172: after the loop.
Finish ==
    /\ pc = "loop"
    /\ Len(invoked) = Len(queries)
    /\ out' = out \o <<SeparatorLine, CompleteLine>>
    /\ pc' = "returned"
    /\ UNCHANGED <<environ, dotenv, app_name, llm, agent, invoked, caught, raised>>
    /\ UNCHANGED toolVars

(***************************************************************************)
(* Calls of reverse_string: on an input, then on its own result.           *)
(***************************************************************************)
MaxStrLen == 4
MaxReverseCalls == 2
ReverseAlphabet == {"a", "b", " "}
ReverseInputs == UNION {[1..n -> ReverseAlphabet] : n \in 0..MaxStrLen}

ReverseInit ==
    /\ MainIdle
    /\ tool = "" /\ arg \in ReverseInputs /\ ret = <<>> /\ exc = ""
    /\ now = Clock(2024, 1, 1, 0, 0, 0) /\ stamp = now /\ told = <<>> /\ seen = now
    /\ expr = <<>> /\ family = "" /\ orig = arg /\ calls = 0

\* reverse_string(text), the first time on the input, then on the last result.
CallReverseString ==
    /\ calls < MaxReverseCalls
    /\ LET text == IF calls = 0 THEN arg ELSE ret
       IN /\ arg' = text
          /\ ret' = reverse_string(text)
    /\ tool' = "reverse_string"
    /\ calls' = calls + 1
    /\ UNCHANGED <<exc, now, stamp, told, seen, expr, family, orig>>
    /\ UNCHANGED mainVars

ReverseNext == CallReverseString

SpecReverse == ReverseInit /\ [][ReverseNext]_vars

(***************************************************************************)
(* Calls of get_current_time and get_weather while the clock runs.         *)
(***************************************************************************)
MaxPastMidnight == 1

\* Clock values shortly before the end of a day: inside a month, at the end
\* of February in a leap year and in a common year, at the end of the year.
ClockStarts ==
    { Clock(2024, 1, 9, 23, 59, 58),
      Clock(2024, 2, 28, 23, 59, 59),
      Clock(2023, 2, 28, 23, 59, 58),
      Clock(2024, 11, 30, 23, 59, 59),
      Clock(2024, 12, 31, 23, 59, 58) }

DayAfter(c) == NextSecond([c EXCEPT !.hour = 23, !.minute = 59, !.second = 59])
WeatherClocks == ClockStarts \cup {DayAfter(c) : c \in ClockStarts}

\* The date written without zero padding, "2024-1-9".
UnpaddedDate(c) ==
    DecimalDigits(c.year) \o <<"-">> \o DecimalDigits(c.month) \o <<"-">>
    \o DecimalDigits(c.day)

\* What an agent may pass for a date d: the date, the date with whitespace
\* around it or inside it, and a date followed by more text.
Decorated(d) ==
    { d, <<" ">> \o d, d \o <<"\n">>, <<"\t", " ">> \o d \o <<" ">>,
      SubSeq(d, 1, 5) \o <<" ">> \o SubSeq(d, 6, Len(d)),
      d \o <<" ", "x">> }

WeatherStrings ==
    UNION {Decorated(StrfDate(c)) \cup {UnpaddedDate(c)} : c \in WeatherClocks}
    \cup {<<>>, <<" ">>, <<"t", "o", "d", "a", "y">>}

WeatherInputs == {Str(s) : s \in WeatherStrings} \cup {None}

\* The first ten characters of a str: t[:10].
FirstTen(t) == SubSeq(t, 1, IF Len(t) < 10 THEN Len(t) ELSE 10)

WeatherInit ==
    /\ MainIdle
    /\ tool = "" /\ arg = None /\ ret = <<>> /\ exc = ""
    /\ now \in ClockStarts /\ stamp = now /\ told = <<>> /\ seen = now
    /\ expr = <<>> /\ family = "" /\ orig = <<>> /\ calls = 0

\* The clock advances by one second.
Tick ==
    /\ now.hour = 23 \/ now.second < MaxPastMidnight
    /\ now' = NextSecond(now)
    /\ UNCHANGED <<tool, arg, ret, exc, stamp, told, seen, expr, family, orig, calls>>
    /\ UNCHANGED mainVars

CallGetCurrentTime ==
    /\ tool' = "get_current_time"
    /\ arg' = Str(<<>>)
    /\ ret' = get_current_time(arg', now)
    /\ exc' = ""
    /\ told' = ret'
    /\ stamp' = now
    /\ calls' = 1
    /\ UNCHANGED <<now, seen, expr, family, orig>>
    /\ UNCHANGED mainVars

\* get_weather on one of the inputs, or on the date part of the time told.
CallGetWeather ==
    /\ \E date \in WeatherInputs \cup {Str(FirstTen(told)), Str(told)} :
          LET r == get_weather(date, now)
          IN /\ arg' = date
             /\ ret' = r.ret
             /\ exc' = r.exc
    /\ tool' = "get_weather"
    /\ seen' = now
    /\ calls' = 1
    /\ UNCHANGED <<now, stamp, told, expr, family, orig>>
    /\ UNCHANGED mainVars

WeatherNext ==
    \/ Tick
    \/ CallGetCurrentTime
    \/ CallGetWeather

SpecWeather == WeatherInit /\ [][WeatherNext]_vars

(***************************************************************************)
(* Calls of calculator. The inputs are arithmetic expressions written out  *)
(* from syntax trees (so that their value is known without eval), such     *)
(* expressions divided by zero or added to an unbound name, every text     *)
(* over a small alphabet, and exit().                                      *)
(***************************************************************************)
MaxOps == 2
MaxTextLen == 4

Leaves == {4, 10, 25}
BinaryOperators == {<<"+">>, <<"-">>, <<"*">>}

\* The syntax trees (prefix form) with exactly k operators.
RECURSIVE ArithExprs(_)
ArithExprs(k) ==
    IF k = 0 THEN {<<Node("num", v, <<>>)>> : v \in Leaves}
    ELSE {<<Node("un", 0, <<"-">>)>> \o a : a \in ArithExprs(k - 1)}
         \cup UNION {{<<Node("bin", 0, op)>> \o a \o b :
                         op \in BinaryOperators,
                         a \in ArithExprs(j), b \in ArithExprs(k - 1 - j)} :
                     j \in 0..(k - 1)}

ArithUpTo(k) == UNION {ArithExprs(j) : j \in 0..k}

Styles == {"tight", "spaced", "full"}

Parenthesised(s) == <<"(">> \o s \o <<")">>

\* The tree at e[i] written as source text. An operand is parenthesised
\* when it binds less tightly than the operator it stands under (and on the
\* right of a binary operator, when it binds no tighter); style "full"
\* parenthesises every operand that is not a literal, "spaced" puts blanks
\* around binary operators.
RECURSIVE WriteAt(_, _, _)
WriteAt(e, i, style) ==
    IF e[i].k = "num" THEN [s |-> DecimalDigits(e[i].n), prec |-> 4, i |-> i + 1]
    ELSE IF e[i].k = "un"
    THEN LET a == WriteAt(e, i + 1, style)
             wrap == a.prec < 3 \/ (style = "full" /\ a.prec < 4)
         IN [s |-> <<"-">> \o (IF wrap THEN Parenthesised(a.s) ELSE a.s),
             prec |-> 3, i |-> a.i]
    ELSE LET p == IF e[i].s = <<"*">> THEN 2 ELSE 1
             l == WriteAt(e, i + 1, style)
             r == WriteAt(e, l.i, style)
             wrapL == l.prec < p \/ (style = "full" /\ l.prec < 4)
             wrapR == r.prec <= p \/ (style = "full" /\ r.prec < 4)
             op == IF style = "spaced" THEN <<" ">> \o e[i].s \o <<" ">> ELSE e[i].s
         IN [s |-> (IF wrapL THEN Parenthesised(l.s) ELSE l.s) \o op
                   \o (IF wrapR THEN Parenthesised(r.s) ELSE r.s),
             prec |-> p, i |-> r.i]

Write(e, style) == WriteAt(e, 1, style).s

TextAlphabet == {"1", "0", "+", "/", "(", ")", "a", " "}
Texts == UNION {[1..n -> TextAlphabet] : n \in 0..MaxTextLen}

\* An expression that divides by zero, written around the expression e.
DivisionsByZero(e, st) ==
    { Parenthesised(Write(e, st)) \o <<"/", "0">>,
      Write(e, st) \o <<" ", "/", "/", " ", "0">> }

\* An expression that reads a name nothing defines.
UndefinedName(e, st) == Write(e, st) \o <<"+", "a">>

CalculatorInit ==
    /\ MainIdle
    /\ \/ \E e \in ArithUpTo(MaxOps), st \in Styles :
             family = "arith" /\ expr = e /\ arg = Write(e, st)
       \/ \E e \in ArithUpTo(1), st \in Styles :
             family = "divzero" /\ expr = e /\ arg \in DivisionsByZero(e, st)
       \/ \E e \in ArithUpTo(1), st \in Styles :
             family = "undefined" /\ expr = e /\ arg = UndefinedName(e, st)
       \/ family = "text" /\ expr = <<>> /\ arg \in Texts
       \/ family = "exit" /\ expr = <<>> /\ arg = EXIT \o <<"(", ")">>
    /\ tool = "" /\ ret = <<>> /\ exc = ""
    /\ now = Clock(2024, 1, 1, 0, 0, 0) /\ stamp = now /\ told = <<>> /\ seen = now
    /\ orig = <<>> /\ calls = 0

CallCalculator ==
    /\ calls = 0
    /\ ret' = calculator(arg).ret
    /\ exc' = calculator(arg).exc
    /\ tool' = "Calculator"
    /\ calls' = 1
    /\ UNCHANGED <<arg, now, stamp, told, seen, expr, family, orig>>
    /\ UNCHANGED mainVars

CalculatorNext == CallCalculator

SpecCalculator == CalculatorInit /\ [][CalculatorNext]_vars

(***************************************************************************)
(* The program: one run of main().                                         *)
(***************************************************************************)
Init == MainInit /\ ToolsIdle

Next ==
    \/ Startup
    \/ ReportMissingToken
    \/ TokenLoaded
    \/ BuildModel
    \/ RegisterTools
    \/ CreateAgent
    \/ BeginQueries
    \/ InvokeQuery
    \/ Finish

Spec == Init /\ [][Next]_vars

(***************************************************************************)
(* Properties of main()                                                    *)
(***************************************************************************)
Printed(line) == \E i \in DOMAIN out : out[i] = line

\* The lines the loop's handler printed.
ErrorLines == {i \in DOMAIN out : Len(out[i]) = 2 /\ out[i][1] = "Error: "}

\* GITHUB_TOKEN is unset or empty when main() reads it (after load_dotenv).
TokenAbsentOrEmpty ==
    /\ pc # "start"
    /\ \/ environ["GITHUB_TOKEN"].set = FALSE
       \/ environ["GITHUB_TOKEN"].val = ""

\* The application name main() is to announce.
ExpectedAppName ==
    IF environ["APP_NAME"].set THEN environ["APP_NAME"].val ELSE "LangChain Agent"

\* C1: when GITHUB_TOKEN is absent or empty, main() prints the startup line
\* and the remediation message (the 'not found' line and the three steps),
\* returns without raising, and never constructs the model client, creates
\* the agent or invokes it; the success line and the completion line are
\* never printed.
C1_MissingTokenReturnsEarly ==
    TokenAbsentOrEmpty =>
        /\ pc \in {"token", "returned"}
        /\ raised = ""
        /\ llm = FALSE /\ agent = FALSE /\ invoked = <<>>
        /\ ~Printed(LoadedLine) /\ ~Printed(CompleteLine)
        /\ pc = "returned" =>
              out = << <<"Starting ", ExpectedAppName, "...">>,
                       <<"Error: GITHUB_TOKEN not found in environment variables.">>,
                       <<"To fix this:">>,
                       <<"   1. Create a .env file in the project root">>,
                       <<"   2. Add your token: GITHUB_TOKEN=your_token_here">>,
                       <<"   3. Generate a token at https://github.com/settings/tokens">> >>

\* A finished run whose token was set, but to the empty string.
C1_Witness ==
    /\ pc = "returned"
    /\ environ["GITHUB_TOKEN"].set /\ environ["GITHUB_TOKEN"].val = ""
    /\ Len(out) = 6

\* C7: the first line printed in any run is the startup line, carrying the
\* value of APP_NAME when it is set and "LangChain Agent" when it is not;
\* it is printed before the token check, so every run past the first
\* statement has it, with the token absent or present.
C7_StartupLineFirst ==
    pc # "start" =>
        /\ out # <<>>
        /\ out[1] = <<"Starting ", ExpectedAppName, "...">>

\* A run without APP_NAME that ended at the token check.
C7_Witness ==
    /\ pc = "returned" /\ agent = FALSE
    /\ environ["APP_NAME"].set = FALSE
    /\ out[1] = <<"Starting ", "LangChain Agent", "...">>

\* invoked is the first n queries, in list order.
InvokedInOrder ==
    /\ Len(invoked) <= Len(queries)
    /\ \A i \in DOMAIN invoked : invoked[i] = queries[i]

\* C8 as stated: once the agent is constructed, whatever invocations fail,
\* the run ends with all four queries invoked, the completion line printed
\* last and main() returning without raising.
C8_AlwaysCompletes ==
    (agent /\ pc \in {"returned", "raised"}) =>
        /\ pc = "returned" /\ raised = ""
        /\ invoked = queries
        /\ out[Len(out)] = <<"Agent demo complete!">>

\* C8 amended: the queries are invoked in list order, each once, without
\* retry. An invocation that raises an Exception is printed as an error
\* line and the loop goes on; a run in which every failure is an Exception
\* invokes all four and ends with the completion line, main() returning.
\* Only an exception outside Exception (KeyboardInterrupt, SystemExit)
\* leaves main() from the loop.
C8_ExceptionsAreCaught ==
    /\ InvokedInOrder
    /\ Cardinality(ErrorLines) = Cardinality(caught)
    /\ agent =>
          /\ pc = "returned" =>
                /\ raised = ""
                /\ invoked = queries
                /\ out[Len(out)] = <<"Agent demo complete!">>
          /\ pc = "raised" =>
                raised \in {"KeyboardInterrupt", "SystemExit"}
          /\ pc \in {"returned", "raised"} \/ ENABLED Next

\* A finished run in which the second query failed and the later ones ran.
C8_Witness ==
    /\ pc = "returned" /\ agent
    /\ caught = {queries[2]}
    /\ invoked = queries

\* C9: a failure while constructing the model client, the tools or the
\* agent is not caught: it leaves main(), nothing more is printed, no query
\* is invoked and the completion line is never printed. Only failures of
\* query invocations become printed error lines.
C9_ConstructionFailurePropagates ==
    /\ (pc \in {"queries", "loop"} \/ invoked # <<>>) => (llm /\ agent)
    /\ ErrorLines # {} => (agent /\ caught # {})
    /\ (raised # "" /\ ~agent) =>
          /\ pc = "raised"
          /\ invoked = <<>>
          /\ ~Printed(CompleteLine)
          /\ ErrorLines = {}
          /\ ~ENABLED Next

\* The model client was built, then agent construction raised.
C9_Witness ==
    /\ pc = "raised" /\ raised = "Exception"
    /\ llm /\ ~agent
    /\ Printed(ToolsLine)

(***************************************************************************)
(* Properties of reverse_string                                            *)
(***************************************************************************)
\* C2: reverse_string(reverse_string(s)) = s for every s, and
\* reverse_string(s) has the length of s, its character i being character
\* len(s)-1-i of s (indices from 0).
C2_ReverseInvolution ==
    /\ calls >= 1 =>
          /\ Len(ret) = Len(arg)
          /\ \A i \in 0..(Len(arg) - 1) : ret[i + 1] = arg[(Len(arg) - 1 - i) + 1]
    /\ (calls >= 2 /\ calls % 2 = 0) => ret = orig

\* "ab " reversed twice.
C2_Witness ==
    /\ calls = 2
    /\ orig = <<"a", "b", " ">>
    /\ arg = <<" ", "b", "a">>
    /\ ret = orig

(***************************************************************************)
(* Properties of get_current_time and get_weather                          *)
(***************************************************************************)
\* Every character of s outside positions i..j is whitespace.
BlankOutside(s, i, j) ==
    \A k \in DOMAIN s : (k < i \/ k > j) => s[k] \in {" ", "\t", "\n"}

\* C3 as stated: a supplied string that is not character for character
\* today's date (today's date with whitespace around it included) never
\* gets the Sunny result.
C3_SunnyOnlyOnExactMatch ==
    (tool = "get_weather" /\ arg.type = "str" /\ arg.chars # StrfDate(seen))
        => ret # SUNNY

\* C3 amended: get_weather returns the Sunny result only when the supplied
\* string, leading and trailing whitespace aside, is the current date in
\* YYYY-MM-DD form.
C3_SunnyOnlyOnStrippedMatch ==
    (tool = "get_weather" /\ ret = SUNNY) =>
        /\ arg.type = "str"
        /\ \E i, j \in 1..Len(arg.chars) :
              /\ SubSeq(arg.chars, i, j) = StrfDate(seen)
              /\ BlankOutside(arg.chars, i, j)

\* Today's date with whitespace around it got the Sunny result.
C3_Witness ==
    /\ tool = "get_weather"
    /\ ret = SUNNY
    /\ arg.type = "str"
    /\ arg.chars = <<"\t", " ">> \o StrfDate(seen) \o <<" ">>

\* C4: a well-formed YYYY-MM-DD string for a date other than the current
\* one gets exactly the Rainy result, and every str input gets one of the
\* two fixed results (and no exception).
C4_RainyForOtherDates ==
    tool = "get_weather" =>
        /\ arg.type = "str" => (exc = "" /\ ret \in {SUNNY, RAINY})
        /\ (\E c \in WeatherClocks :
               arg = Str(StrfDate(c)) /\ DateOf(c) # DateOf(seen))
           => ret = RAINY

\* After midnight, the date of the day before got the Rainy result.
C4_Witness ==
    /\ tool = "get_weather"
    /\ DateOf(seen) = <<2024, 2, 29>>
    /\ arg = Str(<<"2", "0", "2", "4", "-", "0", "2", "-", "2", "8">>)
    /\ ret = RAINY

\* C10: get_weather on the first ten characters of what get_current_time
\* returned gives the Sunny result exactly when the date the clock shows at
\* the get_weather call is the date it showed at the get_current_time call,
\* and the Rainy result otherwise (the clock crossed midnight in between).
C10_SameDayConsistency ==
    (tool = "get_weather" /\ told # <<>> /\ arg = Str(SubSeq(told, 1, 10))) =>
        IF DateOf(seen) = DateOf(stamp) THEN ret = SUNNY ELSE ret = RAINY

\* The time was told before midnight and the weather asked after it.
C10_Witness ==
    /\ tool = "get_weather"
    /\ told # <<>>
    /\ arg = Str(SubSeq(told, 1, 10))
    /\ stamp.hour = 23 /\ seen.hour = 0
    /\ DateOf(seen) # DateOf(stamp)
    /\ ret = RAINY

(***************************************************************************)
(* Properties of calculator                                                *)
(***************************************************************************)
\* The value of the tree at e[i], by the arithmetic of the integers.
RECURSIVE ValueAt(_, _)
ValueAt(e, i) ==
    IF e[i].k = "num" THEN [v |-> e[i].n, i |-> i + 1]
    ELSE IF e[i].k = "un"
    THEN LET a == ValueAt(e, i + 1) IN [v |-> -a.v, i |-> a.i]
    ELSE LET l == ValueAt(e, i + 1)
             r == ValueAt(e, l.i)
         IN [v |-> IF e[i].s = <<"+">> THEN l.v + r.v
                   ELSE IF e[i].s = <<"-">> THEN l.v - r.v
                   ELSE l.v * r.v,
             i |-> r.i]

ValueOf(e) == ValueAt(e, 1).v

\* The number a sequence of decimal digits writes.
RECURSIVE Horner(_, _)
Horner(digits, acc) ==
    IF digits = <<>> THEN acc
    ELSE Horner(Tail(digits),
                acc * 10 + (CHOOSE d \in 0..9 :
                              <<"0", "1", "2", "3", "4", "5", "6", "7", "8", "9">>[d + 1]
                                  = Head(digits)))

\* s is the decimal string of the integer v: an optional minus sign, then
\* digits without a leading zero.
IsDecimalOf(s, v) ==
    LET digits == IF v < 0 THEN Tail(s) ELSE s
    IN /\ s # <<>>
       /\ (v < 0) = (s[1] = "-")
       /\ digits # <<>>
       /\ \A k \in DOMAIN digits :
             digits[k] \in {"0", "1", "2", "3", "4", "5", "6", "7", "8", "9"}
       /\ Len(digits) > 1 => digits[1] # "0"
       /\ Horner(digits, 0) = (IF v < 0 THEN -v ELSE v)

CountOf(s, c) == Cardinality({k \in DOMAIN s : s[k] = c})

\* Texts that are no expression whatever the rest of them says: blank,
\* parentheses that do not pair up, a binary operator with a side missing.
Malformed(s) ==
    LET t == Strip(s)
    IN \/ t = <<>>
       \/ CountOf(t, "(") # CountOf(t, ")")
       \/ t[1] \in {"/", ")"}
       \/ t[Len(t)] \in {"+", "/", "("}

\* C5: for a valid arithmetic expression over integers built from +, -, *
\* and parentheses, calculator returns the decimal string of the
\* expression's value under the usual precedence, not an error string.
C5_ArithmeticValue ==
    (tool = "Calculator" /\ family = "arith") =>
        /\ exc = ""
        /\ IsDecimalOf(ret, ValueOf(expr))
        /\ ~StartsWith(ret, ERROR_PREFIX)

\* "25 * 4 + 10" gave "110".
C5_Witness ==
    /\ tool = "Calculator"
    /\ family = "arith"
    /\ arg = <<"2", "5", " ", "*", " ", "4", " ", "+", " ", "1", "0">>
    /\ ret = <<"1", "1", "0">>

\* C6: for an invalid input (a malformed expression, a division by zero, a
\* name that is not defined) calculator does not raise: it returns a string
\* that begins with "Error evaluating expression: ". No SyntaxError,
\* ZeroDivisionError, NameError or other Exception leaves calculator.
C6_FailuresBecomeStrings ==
    tool = "Calculator" =>
        /\ exc \notin {"Exception", "SyntaxError", "ZeroDivisionError",
                       "NameError", "TypeError", "AttributeError"}
        /\ (\/ family \in {"divzero", "undefined"}
            \/ family = "text" /\ Malformed(arg))
           => /\ exc = ""
              /\ StartsWith(ret, ERROR_PREFIX)
              /\ Len(ret) > Len(ERROR_PREFIX)

\* "1/0" came back as an error string.
C6_Witness ==
    /\ tool = "Calculator"
    /\ arg = <<"1", "/", "0">>
    /\ exc = ""
    /\ ret = ERROR_PREFIX \o <<"division by zero">>

====
